---- MODULE Spec2Model ----
(***************************************************************************)
(* Model of the solana_nft_marketplace program: the three instructions     *)
(* list, cancel and buy (instructions/trade.rs), the Listing account       *)
(* (state.rs), and the ledger they act on: lamport balances, the Listing   *)
(* PDAs and the associated token accounts (ATAs).                          *)
(*                                                                         *)
(* An instruction is a function from a ledger state to either an error or  *)
(* a new ledger state.  The account constraints of the #[derive(Accounts)] *)
(* struct run first, in field order for the init constraints and then the  *)
(* remaining constraints, and the handler body runs last.  The ledger      *)
(* commits the new state only when the instruction returns Ok.             *)
(*                                                                         *)
(* Besides the three instructions, the ledger lets anyone create an        *)
(* associated token account (the pre-created escrow ATA that the source    *)
(* mentions at List::escrow_nft_ata) and lets a user close their own empty *)
(* token account.  Transaction fees are not part of the program and are    *)
(* left out.  The program does no arithmetic on lamports or prices of its  *)
(* own (the transfer is the system program's, which checks the balance),   *)
(* so balances and prices are small naturals.  A run explores one mint,    *)
(* of every shape the checks of list distinguish, and three users.         *)
(***************************************************************************)
EXTENDS Integers, Sequences, FiniteSets, TLC

VARIABLES lamports, listings, tokens, mints, last, preList

vars == <<lamports, listings, tokens, mints, last, preList>>

(* ------------------------------ bounds -------------------------------- *)

Users == {"u1", "u2", "u3"}
Mints == {"m1"}

\* Largest price argument tried by List.
MaxPrice == 2
\* Lamports every user starts with.
InitLamports == 4

\* Rent reserved by a Listing account (space = 8 + Listing::INIT_SPACE),
\* in the model's unit of value.
ListingRent == 2
\* Rent reserved by an associated token account, in the same unit.
AtaRent == 1

(* ------------------------ program constants --------------------------- *)

\* Listing::SEED_PREFIX
SEED_PREFIX == "listing"

(* ------------------------------ addresses ----------------------------- *)

\* The canonical bump of the PDA derived from (SEED_PREFIX, mint).
CanonicalBump(m) == IF m = "m1" THEN 254 ELSE 255

\* seeds = [Listing::SEED_PREFIX, mint.key().as_ref()]
ListingPda(m) == <<SEED_PREFIX, m>>

\* The address signed for by invoke_signed with seeds (prefix, mint, bump):
\* the PDA when the bump is the canonical one, no address otherwise.
SignerPda(prefix, m, bump) ==
    IF bump = CanonicalBump(m) THEN <<prefix, m>> ELSE <<"offcurve", m>>

ListingAddrs == {ListingPda(m) : m \in Mints}

\* The key of a user's wallet, as the owner of a token account.
UserKey(u) == <<"user", u>>

\* associated_token::mint = mint, associated_token::authority = owner
Ata(owner, m) == <<owner, m>>

\* The token accounts the instructions can name: every user's account for
\* every mint, and the escrow account of every mint.
AtaAddrs == {Ata(UserKey(u), m) : u \in Users, m \in Mints}
            \cup {Ata(ListingPda(m), m) : m \in Mints}

(* ------------------------------ accounts ------------------------------ *)

NoListing == [init |-> FALSE, seller |-> "-", mint |-> "-", price |-> 0, bump |-> 0]
NoToken == [init |-> FALSE, amount |-> 0]

\* The shapes a mint can have: one genuine single-edition asset and one
\* shape per asset-shape check of list.
MintShapes ==
    { [decimals |-> 0, supply |-> 1, mint_authority |-> FALSE, freeze_authority |-> FALSE],
      [decimals |-> 1, supply |-> 1, mint_authority |-> FALSE, freeze_authority |-> FALSE],
      [decimals |-> 0, supply |-> 2, mint_authority |-> FALSE, freeze_authority |-> FALSE],
      [decimals |-> 0, supply |-> 1, mint_authority |-> TRUE,  freeze_authority |-> FALSE],
      [decimals |-> 0, supply |-> 1, mint_authority |-> FALSE, freeze_authority |-> TRUE] }

\* The ledger state an instruction reads and writes.
Ledger == [lamports |-> lamports, listings |-> listings, tokens |-> tokens]

Ok(st) == [err |-> "Ok", st |-> st]
Err(e, st) == [err |-> e, st |-> st]

(* --------------------------- ledger primitives ------------------------ *)

\* system_instruction::transfer(from, to, amount), signed by `from`.
SystemTransfer(st, from, to, amount) ==
    IF st.lamports[from] < amount
    THEN Err("SystemInsufficientFunds", st)
    ELSE IF from = to THEN Ok(st)
    ELSE Ok([st EXCEPT !.lamports = [@ EXCEPT ![from] = @ - amount,
                                             ![to] = @ + amount]])

\* InitListing as `init_if_needed` would do it: an occupied address passes.
InitListing_IfNeeded(st, payer, addr) ==
    IF st.listings[addr].init
    THEN Ok(st)
    ELSE IF st.lamports[payer] < ListingRent
    THEN Err("SystemInsufficientFunds", st)
    ELSE Ok([st EXCEPT !.lamports = [@ EXCEPT ![payer] = @ - ListingRent],
                       !.listings = [@ EXCEPT ![addr] =
                            [init |-> TRUE, seller |-> "-", mint |-> "-",
                             price |-> 0, bump |-> 0]]])

\* Anchor `init` of the Listing account at `addr`, paid by `payer`: the
\* creation fails when the address is already occupied.
InitListing(st, payer, addr) ==
    IF st.listings[addr].init
    THEN Err("AccountAlreadyInUse", st)
    ELSE IF st.lamports[payer] < ListingRent
    THEN Err("SystemInsufficientFunds", st)
    ELSE Ok([st EXCEPT !.lamports = [@ EXCEPT ![payer] = @ - ListingRent],
                       !.listings = [@ EXCEPT ![addr] =
                            [init |-> TRUE, seller |-> "-", mint |-> "-",
                             price |-> 0, bump |-> 0]]])

\* Anchor `init_if_needed` of the associated token account of (owner, m),
\* paid by `payer`: an account that exists already is taken as it is.
InitAtaIfNeeded(st, payer, owner, m) ==
    IF st.tokens[Ata(owner, m)].init
    THEN Ok(st)
    ELSE IF st.lamports[payer] < AtaRent
    THEN Err("SystemInsufficientFunds", st)
    ELSE Ok([st EXCEPT !.lamports = [@ EXCEPT ![payer] = @ - AtaRent],
                       !.tokens = [@ EXCEPT ![Ata(owner, m)] =
                            [init |-> TRUE, amount |-> 0]]])

\* TokenTransfer that credits `to` without debiting `from`.
TokenTransfer_NoDebit(st, from, to, authority, signers, amount) ==
    IF ~st.tokens[from].init \/ ~st.tokens[to].init
    THEN Err("TokenUninitialized", st)
    ELSE IF from[2] # to[2]
    THEN Err("TokenMintMismatch", st)
    ELSE IF from[1] # authority
    THEN Err("TokenOwnerMismatch", st)
    ELSE IF authority \notin signers
    THEN Err("MissingRequiredSignature", st)
    ELSE IF st.tokens[from].amount < amount
    THEN Err("TokenInsufficientFunds", st)
    ELSE IF from = to THEN Ok(st)
    ELSE Ok([st EXCEPT !.tokens = [@ EXCEPT ![to].amount = @ + amount]])

\* token::transfer(from, to, authority, amount) with the given signers.
TokenTransfer(st, from, to, authority, signers, amount) ==
    IF ~st.tokens[from].init \/ ~st.tokens[to].init
    THEN Err("TokenUninitialized", st)
    ELSE IF from[2] # to[2]
    THEN Err("TokenMintMismatch", st)
    ELSE IF from[1] # authority
    THEN Err("TokenOwnerMismatch", st)
    ELSE IF authority \notin signers
    THEN Err("MissingRequiredSignature", st)
    ELSE IF st.tokens[from].amount < amount
    THEN Err("TokenInsufficientFunds", st)
    ELSE IF from = to THEN Ok(st)
    ELSE Ok([st EXCEPT !.tokens = [@ EXCEPT ![from].amount = @ - amount,
                                           ![to].amount = @ + amount]])

\* token::close_account(account, destination, authority): only an empty
\* account can be closed; its rent goes to `destination`.
TokenClose(st, account, destination, authority, signers) ==
    IF ~st.tokens[account].init
    THEN Err("TokenUninitialized", st)
    ELSE IF account[1] # authority
    THEN Err("TokenOwnerMismatch", st)
    ELSE IF authority \notin signers
    THEN Err("MissingRequiredSignature", st)
    ELSE IF st.tokens[account].amount # 0
    THEN Err("TokenNonNativeHasBalance", st)
    ELSE Ok([st EXCEPT !.tokens = [@ EXCEPT ![account] = NoToken],
                       !.lamports = [@ EXCEPT ![destination] = @ + AtaRent]])


\* CloseListing without the close: the Listing account stays.
CloseListing_Keep(st, addr, destination) ==
    Ok(st)

\* CloseListing that pays the rent out and leaves the account in place.
CloseListing_RefundOnly(st, addr, destination) ==
    Ok([st EXCEPT !.lamports = [@ EXCEPT ![destination] = @ + ListingRent]])

\* Anchor `close = seller` at instruction exit: the account's lamports go
\* to `destination` and the account stops existing.
CloseListing(st, addr, destination) ==
    Ok([st EXCEPT !.listings = [@ EXCEPT ![addr] = NoListing],
                  !.lamports = [@ EXCEPT ![destination] = @ + ListingRent]])

(* -------------------------------- list -------------------------------- *)

\* The account constraints of List, for signer `seller` and mint `m`:
\* `init` of listing, the seller's token account, `init_if_needed` of the
\* escrow token account, both paid by the seller.
ListAccounts(st, seller, m) ==
    LET r1 == InitListing(st, seller, ListingPda(m)) IN
    IF r1.err # "Ok" THEN r1
    ELSE IF ~r1.st.tokens[Ata(UserKey(seller), m)].init
    THEN Err("AccountNotInitialized", st)
    ELSE InitAtaIfNeeded(r1.st, seller, ListingPda(m), m)

\* ListValidations without the price check.
ListValidations_NoPriceCheck(st, seller, m, price) ==
    IF ~(mints[m].decimals = 0) THEN "InvalidMintDecimals"
    ELSE IF ~(mints[m].supply = 1) THEN "InvalidMintSupply"
    ELSE IF mints[m].mint_authority THEN "InvalidMintAuthority"
    ELSE IF mints[m].freeze_authority THEN "InvalidFreezeAuthority"
    ELSE IF ~(st.tokens[Ata(UserKey(seller), m)].amount = 1) THEN "InvalidNftAmount"
    ELSE "Ok"

\* The require! checks of list, in order: the first that fails, or "Ok".
ListValidations(st, seller, m, price) ==
    IF ~(price > 0) THEN "InvalidPrice"
    ELSE IF ~(mints[m].decimals = 0) THEN "InvalidMintDecimals"
    ELSE IF ~(mints[m].supply = 1) THEN "InvalidMintSupply"
    ELSE IF mints[m].mint_authority THEN "InvalidMintAuthority"
    ELSE IF mints[m].freeze_authority THEN "InvalidFreezeAuthority"
    ELSE IF ~(st.tokens[Ata(UserKey(seller), m)].amount = 1) THEN "InvalidNftAmount"
    ELSE "Ok"

\* ListingData with the price left unset.
ListingData_NoPrice(seller, m, price) ==
    [init |-> TRUE, seller |-> seller, mint |-> m, price |-> 0,
     bump |-> CanonicalBump(m)]

\* The Listing that list stores: seller, mint, price and the PDA's bump.
ListingData(seller, m, price) ==
    [init |-> TRUE, seller |-> seller, mint |-> m, price |-> price,
     bump |-> CanonicalBump(m)]

\* list without the transfer into escrow.
list_SkipEscrow(st, seller, m, price) ==
    LET e == ListValidations(st, seller, m, price) IN
    IF e # "Ok" THEN Err(e, st)
    ELSE Ok([st EXCEPT !.listings = [@ EXCEPT ![ListingPda(m)] =
                                        ListingData(seller, m, price)]])

\* The handler body of list: the checks, the stored Listing, and the
\* transfer of 1 token from the seller's account to the escrow account.
list(st, seller, m, price) ==
    LET e == ListValidations(st, seller, m, price) IN
    IF e # "Ok" THEN Err(e, st)
    ELSE
      LET st1 == [st EXCEPT !.listings = [@ EXCEPT ![ListingPda(m)] =
                                             ListingData(seller, m, price)]]
      IN TokenTransfer(st1, Ata(UserKey(seller), m), Ata(ListingPda(m), m),
                       UserKey(seller), {UserKey(seller)}, 1)

\* The whole List instruction: constraints, then the handler.
ListIx(st, seller, m, price) ==
    LET r1 == ListAccounts(st, seller, m) IN
    IF r1.err # "Ok" THEN r1 ELSE list(r1.st, seller, m, price)

(* ------------------------------- cancel ------------------------------- *)

\* CancelAccounts without has_one = seller.
CancelAccounts_NoHasOne(st, seller, m) ==
    LET l == st.listings[ListingPda(m)] IN
    IF ~l.init THEN Err("AccountNotInitialized", st)
    ELSE IF ~st.tokens[Ata(UserKey(seller), m)].init
    THEN Err("AccountNotInitialized", st)
    ELSE IF ~st.tokens[Ata(ListingPda(m), m)].init
    THEN Err("AccountNotInitialized", st)
    ELSE IF SignerPda(SEED_PREFIX, m, l.bump) # ListingPda(m)
    THEN Err("ConstraintSeeds", st)
    ELSE IF l.mint # m THEN Err("ConstraintHasOne", st)
    ELSE Ok(st)

\* The account constraints of Cancel, for signer `seller` and mint `m`:
\* the three accounts must exist, the listing must sit at the PDA of the
\* mint, and has_one = seller, has_one = mint must hold.
CancelAccounts(st, seller, m) ==
    LET l == st.listings[ListingPda(m)] IN
    IF ~l.init THEN Err("AccountNotInitialized", st)
    ELSE IF ~st.tokens[Ata(UserKey(seller), m)].init
    THEN Err("AccountNotInitialized", st)
    ELSE IF ~st.tokens[Ata(ListingPda(m), m)].init
    THEN Err("AccountNotInitialized", st)
    ELSE IF SignerPda(SEED_PREFIX, m, l.bump) # ListingPda(m)
    THEN Err("ConstraintSeeds", st)
    ELSE IF l.seller # seller THEN Err("ConstraintHasOne", st)
    ELSE IF l.mint # m THEN Err("ConstraintHasOne", st)
    ELSE Ok(st)

\* cancel without the close of the escrow account.
cancel_SkipClose(st, seller, m) ==
    IF ~(st.tokens[Ata(ListingPda(m), m)].amount = 1)
    THEN Err("InvalidEscrowAmount", st)
    ELSE
      LET bump == st.listings[ListingPda(m)].bump
          signer_seeds == {SignerPda(SEED_PREFIX, m, bump)}
      IN TokenTransfer(st, Ata(ListingPda(m), m), Ata(UserKey(seller), m),
                       ListingPda(m), signer_seeds, 1)

\* The handler body of cancel: the escrow check, the transfer of the
\* token back to the seller and the close of the escrow account, both
\* signed with the listing PDA's seeds.
cancel(st, seller, m) ==
    IF ~(st.tokens[Ata(ListingPda(m), m)].amount = 1)
    THEN Err("InvalidEscrowAmount", st)
    ELSE
      LET bump == st.listings[ListingPda(m)].bump
          signer_seeds == {SignerPda(SEED_PREFIX, m, bump)}
          r1 == TokenTransfer(st, Ata(ListingPda(m), m), Ata(UserKey(seller), m),
                              ListingPda(m), signer_seeds, 1)
      IN IF r1.err # "Ok" THEN r1
         ELSE TokenClose(r1.st, Ata(ListingPda(m), m), seller,
                         ListingPda(m), signer_seeds)

\* The whole Cancel instruction: constraints, handler, `close = seller`.
CancelIx(st, seller, m) ==
    LET r1 == CancelAccounts(st, seller, m) IN
    IF r1.err # "Ok" THEN r1
    ELSE LET r2 == cancel(r1.st, seller, m) IN
         IF r2.err # "Ok" THEN r2
         ELSE CloseListing(r2.st, ListingPda(m), seller)

(* --------------------------------- buy -------------------------------- *)

\* BuyAccounts without has_one = seller.
BuyAccounts_NoHasOne(st, buyer, seller, m) ==
    LET l == st.listings[ListingPda(m)] IN
    IF ~l.init THEN Err("AccountNotInitialized", st)
    ELSE IF ~st.tokens[Ata(ListingPda(m), m)].init
    THEN Err("AccountNotInitialized", st)
    ELSE
      LET r1 == InitAtaIfNeeded(st, buyer, UserKey(buyer), m) IN
      IF r1.err # "Ok" THEN r1
      ELSE IF SignerPda(SEED_PREFIX, m, l.bump) # ListingPda(m)
      THEN Err("ConstraintSeeds", st)
      ELSE IF l.mint # m THEN Err("ConstraintHasOne", st)
      ELSE r1

\* BuyAccounts with the buyer's token account paid by the seller.
BuyAccounts_SellerPays(st, buyer, seller, m) ==
    LET l == st.listings[ListingPda(m)] IN
    IF ~l.init THEN Err("AccountNotInitialized", st)
    ELSE IF ~st.tokens[Ata(ListingPda(m), m)].init
    THEN Err("AccountNotInitialized", st)
    ELSE
      LET r1 == InitAtaIfNeeded(st, seller, UserKey(buyer), m) IN
      IF r1.err # "Ok" THEN r1
      ELSE IF SignerPda(SEED_PREFIX, m, l.bump) # ListingPda(m)
      THEN Err("ConstraintSeeds", st)
      ELSE IF l.seller # seller THEN Err("ConstraintHasOne", st)
      ELSE IF l.mint # m THEN Err("ConstraintHasOne", st)
      ELSE r1

\* The account constraints of Buy, for signer `buyer`, the `seller`
\* account the caller passes and mint `m`: the listing and the escrow
\* account must exist, the buyer's token account is created if needed and
\* paid by the buyer, and the listing must sit at the PDA of the mint with
\* has_one = seller, has_one = mint.
BuyAccounts(st, buyer, seller, m) ==
    LET l == st.listings[ListingPda(m)] IN
    IF ~l.init THEN Err("AccountNotInitialized", st)
    ELSE IF ~st.tokens[Ata(ListingPda(m), m)].init
    THEN Err("AccountNotInitialized", st)
    ELSE
      LET r1 == InitAtaIfNeeded(st, buyer, UserKey(buyer), m) IN
      IF r1.err # "Ok" THEN r1
      ELSE IF SignerPda(SEED_PREFIX, m, l.bump) # ListingPda(m)
      THEN Err("ConstraintSeeds", st)
      ELSE IF l.seller # seller THEN Err("ConstraintHasOne", st)
      ELSE IF l.mint # m THEN Err("ConstraintHasOne", st)
      ELSE r1

\* BuyValidations asking for more lamports than the price.
BuyValidations_StrictFunds(st, buyer, seller, m) ==
    IF ~(buyer # seller) THEN "SelfBuyNotAllowed"
    ELSE IF ~(st.listings[ListingPda(m)].price > 0) THEN "InvalidPrice"
    ELSE IF ~(st.tokens[Ata(ListingPda(m), m)].amount = 1) THEN "InvalidEscrowAmount"
    ELSE IF ~(st.lamports[buyer] > st.listings[ListingPda(m)].price)
    THEN "InsufficientFunds"
    ELSE "Ok"

\* BuyValidations without the self-buy check.
BuyValidations_NoSelfCheck(st, buyer, seller, m) ==
    IF ~(st.listings[ListingPda(m)].price > 0) THEN "InvalidPrice"
    ELSE IF ~(st.tokens[Ata(ListingPda(m), m)].amount = 1) THEN "InvalidEscrowAmount"
    ELSE IF ~(st.lamports[buyer] >= st.listings[ListingPda(m)].price)
    THEN "InsufficientFunds"
    ELSE "Ok"

\* The require! checks of buy, in order: the first that fails, or "Ok".
BuyValidations(st, buyer, seller, m) ==
    IF ~(buyer # seller) THEN "SelfBuyNotAllowed"
    ELSE IF ~(st.listings[ListingPda(m)].price > 0) THEN "InvalidPrice"
    ELSE IF ~(st.tokens[Ata(ListingPda(m), m)].amount = 1) THEN "InvalidEscrowAmount"
    ELSE IF ~(st.lamports[buyer] >= st.listings[ListingPda(m)].price)
    THEN "InsufficientFunds"
    ELSE "Ok"

\* buy without the close of the escrow account.
buy_SkipClose(st, buyer, seller, m) ==
    LET e == BuyValidations(st, buyer, seller, m) IN
    IF e # "Ok" THEN Err(e, st)
    ELSE
      LET price == st.listings[ListingPda(m)].price
          r1 == SystemTransfer(st, buyer, seller, price)
          bump == st.listings[ListingPda(m)].bump
          signer_seeds == {SignerPda(SEED_PREFIX, m, bump)}
      IN IF r1.err # "Ok" THEN r1
         ELSE TokenTransfer(r1.st, Ata(ListingPda(m), m), Ata(UserKey(buyer), m),
                            ListingPda(m), signer_seeds, 1)

\* The handler body of buy: the checks, the payment of `price` lamports
\* from buyer to seller, the transfer of the token from escrow to the
\* buyer and the close of the escrow account, both signed with the listing
\* PDA's seeds.
buy(st, buyer, seller, m) ==
    LET e == BuyValidations(st, buyer, seller, m) IN
    IF e # "Ok" THEN Err(e, st)
    ELSE
      LET price == st.listings[ListingPda(m)].price
          r1 == SystemTransfer(st, buyer, seller, price)
          bump == st.listings[ListingPda(m)].bump
          signer_seeds == {SignerPda(SEED_PREFIX, m, bump)}
      IN IF r1.err # "Ok" THEN r1
         ELSE LET r2 == TokenTransfer(r1.st, Ata(ListingPda(m), m),
                                      Ata(UserKey(buyer), m),
                                      ListingPda(m), signer_seeds, 1)
              IN IF r2.err # "Ok" THEN r2
                 ELSE TokenClose(r2.st, Ata(ListingPda(m), m), seller,
                                 ListingPda(m), signer_seeds)

\* The whole Buy instruction: constraints, handler, `close = seller`.
BuyIx(st, buyer, seller, m) ==
    LET r1 == BuyAccounts(st, buyer, seller, m) IN
    IF r1.err # "Ok" THEN r1
    ELSE LET r2 == buy(r1.st, buyer, seller, m) IN
         IF r2.err # "Ok" THEN r2
         ELSE CloseListing(r2.st, ListingPda(m), seller)

(* ------------------------------ the system ---------------------------- *)

NoOp == [op |-> "-", caller |-> "-", seller |-> "-", mint |-> "-",
         price |-> 0, err |-> "-"]

\* The ledger before the latest successful List, kept while that List is
\* the latest call (taken) and through a successful Cancel that follows it
\* at once (cancelled).
NoSnapshot == [taken |-> FALSE, cancelled |-> FALSE, mint |-> "-", seller |-> "-",
               lamports |-> [u \in Users |-> 0],
               listings |-> [a \in ListingAddrs |-> NoListing],
               tokens |-> [a \in AtaAddrs |-> NoToken]]

\* The user holding the whole supply of a mint at the start.
FirstHolder(m) == "u1"

\* Every user starts with InitLamports; every mint has one of the shapes;
\* the whole supply of a mint sits in the token account of its first
\* holder; no listing exists.
Init ==
    /\ lamports = [u \in Users |-> InitLamports]
    /\ listings = [a \in ListingAddrs |-> NoListing]
    /\ mints \in [Mints -> MintShapes]
    /\ tokens = [a \in AtaAddrs |->
                   IF a[1] = UserKey(FirstHolder(a[2]))
                   THEN [init |-> TRUE, amount |-> mints[a[2]].supply]
                   ELSE NoToken]
    /\ last = NoOp
    /\ preList = NoSnapshot

\* The ledger commits an instruction's writes only when it returns Ok.
Commit(r) ==
    /\ lamports' = (IF r.err = "Ok" THEN r.st.lamports ELSE lamports)
    /\ listings' = (IF r.err = "Ok" THEN r.st.listings ELSE listings)
    /\ tokens' = (IF r.err = "Ok" THEN r.st.tokens ELSE tokens)
    /\ UNCHANGED mints

\* A transaction calling list(price), signed by `seller`.
List(seller, m, price) ==
    LET r == ListIx(Ledger, seller, m, price) IN
    /\ Commit(r)
    /\ last' = [op |-> "List", caller |-> seller, seller |-> seller,
                mint |-> m, price |-> price, err |-> r.err]
    /\ preList' = (IF r.err = "Ok"
                   THEN [taken |-> TRUE, cancelled |-> FALSE, mint |-> m, seller |-> seller,
                         lamports |-> lamports, listings |-> listings,
                         tokens |-> tokens]
                   ELSE NoSnapshot)

\* A transaction calling cancel(), signed by `seller`.
Cancel(seller, m) ==
    LET r == CancelIx(Ledger, seller, m) IN
    /\ Commit(r)
    /\ last' = [op |-> "Cancel", caller |-> seller, seller |-> seller,
                mint |-> m, price |-> 0, err |-> r.err]
    /\ preList' = (IF r.err = "Ok" /\ preList.taken /\ preList.mint = m
                   THEN [preList EXCEPT !.taken = FALSE, !.cancelled = TRUE]
                   ELSE NoSnapshot)

\* A transaction calling buy(), signed by `buyer`, naming `seller`; the
\* record of the call keeps the price of the Listing it was called on.
Buy(buyer, seller, m) ==
    LET r == BuyIx(Ledger, buyer, seller, m) IN
    /\ Commit(r)
    /\ last' = [op |-> "Buy", caller |-> buyer, seller |-> seller,
                mint |-> m, price |-> listings[ListingPda(m)].price,
                err |-> r.err]
    /\ preList' = NoSnapshot

\* Anyone may create the associated token account of any owner, a Listing
\* PDA included, before the program is called (the pre-created escrow ATA
\* that init_if_needed accepts).
CreateAta(payer, owner, m) ==
    /\ ~tokens[Ata(owner, m)].init
    /\ lamports[payer] >= AtaRent
    /\ LET r == InitAtaIfNeeded(Ledger, payer, owner, m) IN Commit(r)
    /\ last' = [op |-> "CreateAta", caller |-> payer, seller |-> "-",
                mint |-> m, price |-> 0, err |-> "Ok"]
    /\ preList' = NoSnapshot

\* A user may close their own empty token account and take its rent back.
CloseAta(u, m) ==
    /\ tokens[Ata(UserKey(u), m)].init
    /\ tokens[Ata(UserKey(u), m)].amount = 0
    /\ LET r == TokenClose(Ledger, Ata(UserKey(u), m), u, UserKey(u), {UserKey(u)})
       IN Commit(r)
    /\ last' = [op |-> "CloseAta", caller |-> u, seller |-> "-",
                mint |-> m, price |-> 0, err |-> "Ok"]
    /\ preList' = NoSnapshot

Next ==
    \/ \E s \in Users, m \in Mints, p \in 0..MaxPrice : List(s, m, p)
    \/ \E s \in Users, m \in Mints : Cancel(s, m)
    \/ \E b \in Users, s \in Users, m \in Mints : Buy(b, s, m)
    \/ \E p \in Users, a \in AtaAddrs : CreateAta(p, a[1], a[2])
    \/ \E u \in Users, m \in Mints : CloseAta(u, m)

Spec == Init /\ [][Next]_vars

(* ------------------------------ vocabulary ---------------------------- *)

\* A Listing account exists at the PDA of mint m.
Live(m) == listings[ListingPda(m)].init

\* The escrow token account of mint m.
Escrow(m) == tokens[Ata(ListingPda(m), m)]

\* The units of mint m in user u's token account (0 when it has none).
Holding(u, m) == tokens[Ata(UserKey(u), m)].amount

\* The same three, read in the state after the step.
LiveAfter(m) == listings'[ListingPda(m)].init
EscrowAfter(m) == tokens'[Ata(ListingPda(m), m)]
HoldingAfter(u, m) == tokens'[Ata(UserKey(u), m)].amount

ledger == <<lamports, listings, tokens>>

\* The step is a call of instruction `op` that returned Ok.  Every call
\* writes its own record into `last`, and a successful call changes the
\* ledger, so a step that is not a stuttering step and ends with this
\* record is that call.
Succeeded(op) == last'.op = op /\ last'.err = "Ok"

(* -------------------------------- claims ------------------------------ *)

\* C1: in every reachable state and for every mint, a live Listing implies
\* that the escrow token account owned by the listing PDA exists and holds
\* exactly 1 token, and that no user's token account holds any.
C1_LiveListingHoldsEscrow ==
    \A m \in Mints :
        Live(m) => /\ Escrow(m).init
                   /\ Escrow(m).amount = 1
                   /\ \A u \in Users : Holding(u, m) = 0

C1_Witness ==
    \E m \in Mints : Live(m) /\ last.op = "List" /\ last.err = "Ok"

\* C2: a step in which the escrowed token leaves the escrow account is
\* either a successful Cancel signed by the Listing's seller, which gives
\* the token to that seller, or a successful Buy naming the Listing's
\* seller, which gives the token to the buyer and credits the seller with
\* the Listing's price on top of the two refunded rents; and a Buy naming
\* another seller than the live Listing's fails and changes nothing.
C2_EscrowLeavesOnlyByCancelOrBuy ==
    [][\A m \in Mints :
         LET l == listings[ListingPda(m)] IN
         /\ (Escrow(m).amount = 1 /\ EscrowAfter(m).amount # 1) =>
               /\ l.init
               /\ \/ /\ Succeeded("Cancel")
                     /\ last'.caller = l.seller
                     /\ HoldingAfter(l.seller, m) = Holding(l.seller, m) + 1
                  \/ /\ Succeeded("Buy")
                     /\ last'.seller = l.seller
                     /\ last'.caller # l.seller
                     /\ HoldingAfter(last'.caller, m) = Holding(last'.caller, m) + 1
                     /\ lamports'[l.seller] =
                            lamports[l.seller] + l.price + ListingRent + AtaRent
                     /\ lamports'[last'.caller] <= lamports[last'.caller] - l.price
         /\ (last'.op = "Buy" /\ last'.mint = m /\ l.init /\ last'.seller # l.seller) =>
               /\ last'.err # "Ok"
               /\ UNCHANGED ledger
      ]_vars

C2_Witness ==
    /\ last.op = "Buy" /\ last.err = "ConstraintHasOne"
    /\ Live(last.mint) /\ Escrow(last.mint).amount = 1
    /\ last.seller # listings[ListingPda(last.mint)].seller
    /\ last.seller # last.caller

\* C3: right after a successful Buy the buyer's token account holds 1
\* token of the mint, and neither the escrow token account nor the Listing
\* exists.
C3_BuyPostState ==
    (last.op = "Buy" /\ last.err = "Ok") =>
        /\ Holding(last.caller, last.mint) = 1
        /\ ~Escrow(last.mint).init
        /\ ~Live(last.mint)

C3_Witness ==
    last.op = "Buy" /\ last.err = "Ok" /\ Holding(last.caller, last.mint) = 1

\* C4 as stated: every successful Buy lowers the buyer's lamports by
\* exactly the Listing's price and raises the seller's by the price plus
\* the two refunded rents.
C4_Original ==
    [][\A m \in Mints :
         (Succeeded("Buy") /\ last'.mint = m) =>
            LET price == listings[ListingPda(m)].price IN
            /\ lamports'[last'.caller] = lamports[last'.caller] - price
            /\ lamports'[last'.seller] =
                   lamports[last'.seller] + price + ListingRent + AtaRent
      ]_vars

\* C4 amended: every successful Buy lowers the buyer's lamports by the
\* Listing's price, plus the rent of the buyer's token account when the
\* Buy had to create it, and raises the seller's by the price plus the two
\* refunded rents; nobody else's lamports change.
C4_BuyMovesPriceAndRent ==
    [][\A m \in Mints :
         (Succeeded("Buy") /\ last'.mint = m) =>
            LET price == listings[ListingPda(m)].price
                buyer == last'.caller
                created == ~tokens[Ata(UserKey(buyer), m)].init
            IN
            /\ lamports'[buyer] =
                   lamports[buyer] - price - (IF created THEN AtaRent ELSE 0)
            /\ lamports'[last'.seller] =
                   lamports[last'.seller] + price + ListingRent + AtaRent
            /\ \A u \in Users \ {buyer, last'.seller} : lamports'[u] = lamports[u]
      ]_vars

\* The first holder has listed, paying both rents, and a buyer without a
\* token account of the mint has bought: the price went from buyer to
\* seller, both rents came back to the seller, and the rent of the new
\* token account left the buyer.
C4_Witness ==
    /\ last.op = "Buy" /\ last.err = "Ok" /\ last.price > 0
    /\ lamports[last.caller] = InitLamports - last.price - AtaRent
    /\ lamports[last.seller] = InitLamports + last.price
    /\ \A u \in Users \ {last.caller, last.seller} : lamports[u] = InitLamports

\* C5: right after a successful List(seller, m, price) the escrow token
\* account holds 1 token, the seller's token account holds 0, and the
\* Listing of m exists with the caller as seller and the supplied price.
C5_ListPostState ==
    (last.op = "List" /\ last.err = "Ok") =>
        LET l == listings[ListingPda(last.mint)] IN
        /\ Escrow(last.mint).init
        /\ Escrow(last.mint).amount = 1
        /\ Holding(last.caller, last.mint) = 0
        /\ l.init
        /\ l.seller = last.caller
        /\ l.mint = last.mint
        /\ l.price = last.price

C5_Witness ==
    last.op = "List" /\ last.err = "Ok" /\ last.price = MaxPrice

\* The conditions under which List must fail, read in the state before
\* the call.
ListMustFail(seller, m, price) ==
    \/ price = 0
    \/ mints[m].decimals # 0
    \/ mints[m].supply # 1
    \/ mints[m].mint_authority
    \/ mints[m].freeze_authority
    \/ ~tokens[Ata(UserKey(seller), m)].init
    \/ Holding(seller, m) # 1
    \/ Live(m)

\* C6: a List called with price 0, or on a mint with decimals other than
\* 0, supply other than 1, a mint authority or a freeze authority, or by a
\* seller not holding exactly 1 token, or while the Listing of the mint
\* exists, returns an error and leaves lamports, listings and token
\* accounts as they were.
C6_ListFailsUnchanged ==
    [][(last'.op = "List" /\ ListMustFail(last'.caller, last'.mint, last'.price)) =>
          /\ last'.err # "Ok"
          /\ UNCHANGED ledger
      ]_vars

C6_Witness ==
    /\ last.op = "List" /\ last.err = "InvalidPrice" /\ last.price = 0
    /\ ~Live(last.mint) /\ ~Escrow(last.mint).init
    /\ Holding(last.caller, last.mint) = 1

\* C7 as stated: a successful Cancel right after a successful List of the
\* same mint gives back the state before the List: same token holdings,
\* no escrow token account, no Listing, and everybody's lamports as before
\* the List.
C7_Original ==
    [][(preList.taken /\ Succeeded("Cancel") /\ last'.mint = preList.mint) =>
          /\ HoldingAfter(preList.seller, preList.mint) = 1
          /\ ~EscrowAfter(preList.mint).init
          /\ ~LiveAfter(preList.mint)
          /\ \A u \in Users :
                tokens'[Ata(UserKey(u), preList.mint)]
                    = preList.tokens[Ata(UserKey(u), preList.mint)]
          /\ lamports' = preList.lamports
      ]_vars

\* C7 amended: a successful Cancel right after a successful List of the
\* same mint gives back the token holdings before the List, leaves no
\* escrow token account and no Listing, and leaves every other user's
\* lamports as before the List; the seller's lamports are as before the
\* List when the List created the escrow token account, and higher by that
\* account's rent when the account existed before the List.
C7_ListCancelRestores ==
    [][(preList.taken /\ Succeeded("Cancel") /\ last'.mint = preList.mint) =>
          LET m == preList.mint
              s == preList.seller
              existed == preList.tokens[Ata(ListingPda(m), m)].init
          IN
          /\ HoldingAfter(s, m) = 1
          /\ ~EscrowAfter(m).init
          /\ ~LiveAfter(m)
          /\ listings' = preList.listings
          /\ \A u \in Users :
                tokens'[Ata(UserKey(u), m)] = preList.tokens[Ata(UserKey(u), m)]
          /\ lamports'[s] = preList.lamports[s] + (IF existed THEN AtaRent ELSE 0)
          /\ \A u \in Users \ {s} : lamports'[u] = preList.lamports[u]
      ]_vars

\* A Cancel right after a List has succeeded, the escrow token account
\* having existed before the List.
C7_Witness ==
    /\ last.op = "Cancel" /\ last.err = "Ok"
    /\ preList.cancelled /\ preList.mint = last.mint
    /\ preList.tokens[Ata(ListingPda(last.mint), last.mint)].init
    /\ lamports[last.caller] = preList.lamports[last.caller] + AtaRent

\* C8: a Cancel called while no Listing of the mint exists, or signed by
\* another user than the Listing's seller, returns an error and leaves
\* lamports, listings and token accounts as they were.
C8_CancelFailsUnchanged ==
    [][\A m \in Mints :
         (/\ last'.op = "Cancel" /\ last'.mint = m
          /\ (~Live(m) \/ listings[ListingPda(m)].seller # last'.caller)) =>
            /\ last'.err # "Ok"
            /\ UNCHANGED ledger
      ]_vars

\* A user who holds a token account of the mint and is not the seller has
\* called Cancel on a live Listing.
C8_Witness ==
    /\ last.op = "Cancel" /\ last.err = "ConstraintHasOne"
    /\ Live(last.mint)
    /\ listings[ListingPda(last.mint)].seller # last.caller

\* C9: a Buy called by the Listing's seller, or by a buyer with fewer
\* lamports than the Listing's price, or while no Listing of the mint
\* exists, returns an error and leaves lamports, listings and token
\* accounts as they were, whichever seller it names.
C9_BuyFailsUnchanged ==
    [][\A m \in Mints :
         (/\ last'.op = "Buy" /\ last'.mint = m
          /\ \/ ~Live(m)
             \/ listings[ListingPda(m)].seller = last'.caller
             \/ lamports[last'.caller] < listings[ListingPda(m)].price) =>
            /\ last'.err # "Ok"
            /\ UNCHANGED ledger
      ]_vars

\* The seller of a live Listing has called Buy on it, naming themselves.
C9_Witness ==
    /\ last.op = "Buy" /\ last.err = "SelfBuyNotAllowed"
    /\ Live(last.mint)
    /\ listings[ListingPda(last.mint)].seller = last.caller

RECURSIVE Sum(_, _)
Sum(f, S) ==
    IF S = {} THEN 0
    ELSE LET x == CHOOSE y \in S : TRUE IN f[x] + Sum(f, S \ {x})

\* The units of mint m in all user token accounts of ledger st.
UserUnits(st, m) ==
    Sum([u \in Users |-> st.tokens[Ata(UserKey(u), m)].amount], Users)

\* C11: in every reachable state in which both a Cancel by seller s and a
\* Buy by buyer b naming s would succeed, whichever of the two is committed
\* first leaves no Listing and no escrow token account, so the other one,
\* run on the resulting ledger, fails; after the Cancel the seller holds
\* the only token and the buyer's lamports are untouched (the seller only
\* gets the two rents back); after the Buy the buyer holds the only token
\* and the seller has been paid the price on top of the two rents.
C11_CancelBuyRace ==
    \A m \in Mints : \A s \in Users : \A b \in Users :
        LET c == CancelIx(Ledger, s, m)
            y == BuyIx(Ledger, b, s, m)
            price == listings[ListingPda(m)].price
        IN (c.err = "Ok" /\ y.err = "Ok") =>
             /\ BuyIx(c.st, b, s, m).err # "Ok"
             /\ CancelIx(y.st, s, m).err # "Ok"
             /\ ~c.st.listings[ListingPda(m)].init
             /\ ~c.st.tokens[Ata(ListingPda(m), m)].init
             /\ c.st.tokens[Ata(UserKey(s), m)].amount = 1
             /\ UserUnits(c.st, m) = 1
             /\ c.st.lamports[b] = lamports[b]
             /\ c.st.lamports[s] = lamports[s] + ListingRent + AtaRent
             /\ ~y.st.listings[ListingPda(m)].init
             /\ ~y.st.tokens[Ata(ListingPda(m), m)].init
             /\ y.st.tokens[Ata(UserKey(b), m)].amount = 1
             /\ UserUnits(y.st, m) = 1
             /\ y.st.lamports[s] = lamports[s] + price + ListingRent + AtaRent

\* A Listing is live and both a Cancel by its seller and a Buy by another
\* user would succeed.
C11_Witness ==
    \E m \in Mints : \E s \in Users : \E b \in Users :
        /\ Live(m) /\ b # s
        /\ CancelIx(Ledger, s, m).err = "Ok"
        /\ BuyIx(Ledger, b, s, m).err = "Ok"

\* C12: a step that destroys the Listing of a mint is a successful Cancel
\* or Buy of that mint which, in the same step, takes the token out of the
\* escrow token account and closes that account; the escrow account of a
\* live Listing is closed only in a step that destroys the Listing; and
\* after every step a live Listing has an escrow account holding exactly 1
\* token, and an escrow account holding a token has a live Listing.
C12_RecordAndEscrowEndTogether ==
    [][\A m \in Mints :
         /\ (Live(m) /\ ~LiveAfter(m)) =>
               /\ Succeeded("Cancel") \/ Succeeded("Buy")
               /\ last'.mint = m
               /\ Escrow(m).amount = 1
               /\ ~EscrowAfter(m).init
         /\ (Live(m) /\ Escrow(m).init /\ ~EscrowAfter(m).init) => ~LiveAfter(m)
         /\ LiveAfter(m) => (EscrowAfter(m).init /\ EscrowAfter(m).amount = 1)
         /\ EscrowAfter(m).amount > 0 => LiveAfter(m)
      ]_vars

\* A Cancel has destroyed the Listing and closed the escrow token account.
C12_Witness ==
    /\ last.op = "Cancel" /\ last.err = "Ok"
    /\ ~Live(last.mint) /\ ~Escrow(last.mint).init

\* C13: a Listing that is live before and after a step has the same
\* seller, mint, price and bump after it; a Listing comes to life only by
\* a successful List, with the caller as seller and the mint and price of
\* the call; and after every step a live Listing has a price above 0.
C13_ListingImmutable ==
    [][\A m \in Mints :
         LET before == listings[ListingPda(m)]
             after == listings'[ListingPda(m)]
         IN
         /\ (before.init /\ after.init) => after = before
         /\ (~before.init /\ after.init) =>
               /\ Succeeded("List")
               /\ after.seller = last'.caller
               /\ after.mint = m /\ last'.mint = m
               /\ after.price = last'.price
         /\ after.init => after.price > 0
      ]_vars

\* A Listing is live after a step of another user that is not a call of
\* the program.
C13_Witness ==
    /\ last.op = "CloseAta" /\ Live(last.mint)
    /\ listings[ListingPda(last.mint)].price > 0
    /\ listings[ListingPda(last.mint)].seller # last.caller

\* The step is a List with a price above 0, of the mint of the latest call
\* and by the caller of the latest call, and the latest call was a
\* successful `op`.
RelistAfter(op) ==
    /\ last.op = op /\ last.err = "Ok"
    /\ last'.op = "List" /\ last'.price > 0
    /\ last'.caller = last.caller /\ last'.mint = last.mint

\* C14 as stated: a List with a price above 0 by the buyer right after a
\* successful Buy, or by the seller right after a successful Cancel,
\* succeeds.
C14_Original ==
    [][(RelistAfter("Buy") \/ RelistAfter("Cancel")) => last'.err = "Ok"]_vars

\* C14 amended: a List with a price above 0 by the seller right after a
\* successful Cancel succeeds, and one by the buyer right after a
\* successful Buy succeeds when the buyer is left with at least the rents
\* of the Listing account and of the escrow token account, which the List
\* has to pay.
C14_RelistSucceeds ==
    [][/\ RelistAfter("Cancel") => last'.err = "Ok"
       /\ (RelistAfter("Buy") /\ lamports[last.caller] >= ListingRent + AtaRent)
             => last'.err = "Ok"
      ]_vars

\* A user who was not the first holder of the token has listed it.
C14_Witness ==
    /\ last.op = "List" /\ last.err = "Ok"
    /\ last.caller # FirstHolder(last.mint)
    /\ Live(last.mint) /\ Holding(last.caller, last.mint) = 0

\* C15 as stated: in List, Cancel and Buy no write comes before a check.
\* The handler's require! checks run once the account constraints have
\* passed, so the constraints must have written nothing by then.
C15_Original ==
    \A m \in Mints : \A s \in Users : \A b \in Users :
        /\ ListAccounts(Ledger, s, m).err = "Ok" =>
              ListAccounts(Ledger, s, m).st = Ledger
        /\ CancelAccounts(Ledger, s, m).err = "Ok" =>
              CancelAccounts(Ledger, s, m).st = Ledger
        /\ BuyAccounts(Ledger, b, s, m).err = "Ok" =>
              BuyAccounts(Ledger, b, s, m).st = Ledger

\* C15 amended: Cancel writes nothing before its last check. In List and
\* Buy the account constraints create accounts before the handler's
\* require! checks run: List the Listing account and, if it is missing,
\* the escrow token account, both paid by the seller; Buy the buyer's
\* token account if it is missing, paid by the buyer. The new accounts
\* hold no token, nothing else is written before the last check, and a
\* handler whose check fails writes nothing.
C15_OnlyCreationsPrecedeChecks ==
    \A m \in Mints : \A s \in Users : \A b \in Users :
        LET la == ListAccounts(Ledger, s, m)
            ca == CancelAccounts(Ledger, s, m)
            ba == BuyAccounts(Ledger, b, s, m)
            escrowRent == IF Escrow(m).init THEN 0 ELSE AtaRent
            buyerRent == IF tokens[Ata(UserKey(b), m)].init THEN 0 ELSE AtaRent
        IN
        /\ ca.st = Ledger
        /\ ca.err = "Ok" /\ cancel(ca.st, s, m).err = "InvalidEscrowAmount" =>
              cancel(ca.st, s, m).st = ca.st
        /\ la.err = "Ok" =>
              /\ la.st.listings[ListingPda(m)].init
              /\ la.st.tokens = [tokens EXCEPT ![Ata(ListingPda(m), m)] =
                                   [init |-> TRUE, amount |-> Escrow(m).amount]]
              /\ la.st.lamports = [lamports EXCEPT ![s] = @ - ListingRent - escrowRent]
              /\ \A p \in 0..MaxPrice :
                    ListValidations(la.st, s, m, p) # "Ok" =>
                       list(la.st, s, m, p).st = la.st
        /\ ba.err = "Ok" =>
              /\ ba.st.listings = listings
              /\ ba.st.tokens = [tokens EXCEPT ![Ata(UserKey(b), m)] =
                                   [init |-> TRUE, amount |-> Holding(b, m)]]
              /\ ba.st.lamports = [lamports EXCEPT ![b] = @ - buyerRent]
              /\ BuyValidations(ba.st, b, s, m) # "Ok" =>
                    buy(ba.st, b, s, m).st = ba.st

\* A Buy whose constraints created the buyer's token account has failed
\* at the handler's funds check, and the account is not there.
C15_Witness ==
    /\ last.op = "Buy" /\ last.err = "InsufficientFunds"
    /\ ~tokens[Ata(UserKey(last.caller), last.mint)].init
    /\ lamports[last.caller] >= AtaRent

\* The step is a Buy of a live Listing of mint m by somebody other than
\* its seller, naming its seller, with 1 token in escrow.
BuyOfLive(m) ==
    /\ last'.op = "Buy" /\ last'.mint = m
    /\ Live(m)
    /\ last'.caller # listings[ListingPda(m)].seller
    /\ last'.seller = listings[ListingPda(m)].seller
    /\ Escrow(m).amount = 1

\* C16 as stated: a Buy of a live Listing by somebody other than its
\* seller, naming its seller, with 1 token in escrow, succeeds whenever the
\* buyer has at least `price` lamports.
C16_Original ==
    [][\A m \in Mints :
         (BuyOfLive(m) /\ lamports[last'.caller] >= listings[ListingPda(m)].price)
            => last'.err = "Ok"
      ]_vars

\* C16 amended: such a Buy succeeds whenever the buyer has at least `price`
\* lamports and, if the buyer has no token account of the mint yet, the
\* rent of that account on top; with exactly that many it succeeds and
\* leaves the buyer with none. With fewer it fails.
C16_BuySucceedsWithPriceAndRent ==
    [][\A m \in Mints :
         LET b == last'.caller
             price == listings[ListingPda(m)].price
             need == price + (IF tokens[Ata(UserKey(b), m)].init THEN 0 ELSE AtaRent)
         IN BuyOfLive(m) =>
              /\ lamports[b] >= need => last'.err = "Ok"
              /\ lamports[b] = need => lamports'[b] = 0
              /\ lamports[b] < need =>
                    last'.err \in {"InsufficientFunds", "SystemInsufficientFunds"}
      ]_vars

\* A Buy has succeeded and has left the buyer with no lamports.
C16_Witness ==
    /\ last.op = "Buy" /\ last.err = "Ok"
    /\ lamports[last.caller] = 0
    /\ Holding(last.caller, last.mint) = 1

\* The units of mint m in all token accounts, the escrow account included.
TotalUnits(m) == UserUnits(Ledger, m) + Escrow(m).amount

\* C17: in every state the units of a mint in the users' token accounts
\* and in the escrow account add up to the mint's supply; for a mint that
\* has a live Listing, or that the latest successful List, Cancel or Buy
\* was about, that is exactly 1 unit, sitting whole in one account.
C17_AssetConserved ==
    \A m \in Mints :
        /\ TotalUnits(m) = mints[m].supply
        /\ (\/ Live(m)
            \/ /\ last.mint = m /\ last.err = "Ok"
               /\ last.op \in {"List", "Cancel", "Buy"}) =>
              /\ TotalUnits(m) = 1
              /\ Cardinality({a \in AtaAddrs : a[2] = m /\ tokens[a].amount = 1}) = 1
              /\ \A a \in AtaAddrs : tokens[a].amount \in {0, 1}

\* The token has gone through a List and a Buy and then a List and a
\* Cancel by its second holder, who holds it.
C17_Witness ==
    /\ last.op = "Cancel" /\ last.err = "Ok"
    /\ last.caller # FirstHolder(last.mint)
    /\ Holding(last.caller, last.mint) = 1
    /\ TotalUnits(last.mint) = 1

\* The lamports of all users together with the rent held by the Listing
\* accounts and the token accounts that exist.
TotalLamports ==
    Sum(lamports, Users)
      + ListingRent * Cardinality({a \in ListingAddrs : listings[a].init})
      + AtaRent * Cardinality({a \in AtaAddrs : tokens[a].init})

\* C18: no step changes the users' lamports plus the rent held by the
\* existing Listing and token accounts, which is what it was at the start;
\* and a successful Buy moves the price from the buyer to the seller: the
\* buyer's lamports fall by the price and by the rent that enters the
\* buyer's new token account, if one is created, the seller's rise by the
\* price and by the rent that leaves the closed Listing and escrow
\* accounts, and nobody else's lamports change.
C18_ValueConserved ==
    [][/\ TotalLamports = InitLamports * Cardinality(Users) + AtaRent * Cardinality(Mints)
       /\ TotalLamports' = TotalLamports
       /\ Succeeded("Buy") =>
             LET b == last'.caller
                 s == last'.seller
                 m == last'.mint
                 price == listings[ListingPda(m)].price
                 rentIn == IF tokens[Ata(UserKey(b), m)].init THEN 0 ELSE AtaRent
                 rentOut == ListingRent + AtaRent
             IN /\ price > 0
                /\ (lamports[b] - rentIn) - lamports'[b] = price
                /\ lamports'[s] - (lamports[s] + rentOut) = price
                /\ \A u \in Users \ {b, s} : lamports'[u] = lamports[u]
      ]_vars

\* A Buy at the highest price has succeeded while every user has a token
\* account of the mint.
C18_Witness ==
    /\ last.op = "Buy" /\ last.err = "Ok" /\ last.price = MaxPrice
    /\ \A u \in Users : tokens[Ata(UserKey(u), last.mint)].init
    /\ lamports[last.seller] > InitLamports

\* C19 as stated: in every state with a live Listing, a Cancel signed by
\* the Listing's seller succeeds.
C19_Original ==
    \A m \in Mints :
        Live(m) => CancelIx(Ledger, listings[ListingPda(m)].seller, m).err = "Ok"

\* C20: no Buy fails with InvalidPrice and no Cancel or Buy fails with
\* InvalidEscrowAmount: in every state a live Listing has a price above 0
\* and 1 token in escrow, no Cancel or Buy that could be called would
\* return one of these errors, and the latest call has not returned one.
C20_DefensiveChecksNeverFire ==
    /\ \A m \in Mints :
          Live(m) => (listings[ListingPda(m)].price > 0 /\ Escrow(m).amount = 1)
    /\ \A m \in Mints : \A s \in Users : \A b \in Users :
          /\ CancelIx(Ledger, s, m).err # "InvalidEscrowAmount"
          /\ BuyIx(Ledger, b, s, m).err \notin {"InvalidPrice", "InvalidEscrowAmount"}
    /\ last.op \in {"Cancel", "Buy"} => last.err # "InvalidEscrowAmount"
    /\ last.op = "Buy" => last.err # "InvalidPrice"

\* A Buy of a live Listing, naming its seller, has failed for lack of
\* funds, past the price check and the escrow check.
C20_Witness ==
    /\ last.op = "Buy" /\ last.err = "InsufficientFunds"
    /\ Live(last.mint)
    /\ last.seller = listings[ListingPda(last.mint)].seller
    /\ last.caller # last.seller

====
